---- MODULE Spec2Model ----
(***************************************************************************)
(* The Car2X coordinator (src/app.py, class Car2XDashboard): the MQTT      *)
(* message handler, the job registry and the read API, as a state machine; *)
(* and the V2X simulator (src/v2x_simulator.py, class V2XSimulator): its   *)
(* message handler, its job registry and its threads.                      *)
(*                                                                         *)
(* Strings.  A topic string is a sequence of tokens: the token "/" is the  *)
(* separator character, every other token is a maximal run of characters   *)
(* without a slash (two such runs are never adjacent).  The empty string   *)
(* is << >>.  Formatting (an f-string) concatenates token sequences and     *)
(* str.split('/') is Split below; a segment is a slash-free run, or "" for *)
(* the empty segment.                                                      *)
(*                                                                         *)
(* Payloads.  A payload is the bytes of an MQTT message: either bytes that *)
(* json.loads(payload.decode()) rejects, or the encoding of a JSON value.  *)
(* A JSON value is a record of the fields the two programs read or write.  *)
(* Timestamps (datetime.now()) are left out: no modelled branch reads them.*)
(***************************************************************************)
EXTENDS Integers, Sequences, FiniteSets, TLC

\* ------------------------------------------------------------------ bounds
\* Handler calls and create_job calls in one behaviour of Spec.
MaxSteps == 3
\* Handler calls in one behaviour of SpecTopics, which starts from a
\* populated coordinator.
MaxTopicSteps == 1
\* Emergency broadcasts in one behaviour of SpecHistory.
MaxBroadcasts == 12
\* Segments of an id given to the topic formatter in SpecCodec.
MaxIdSegments == 2
\* Handler calls in one behaviour of SpecRead.
MaxReadSteps == 2
\* Handler calls in one behaviour of SpecHandlers.
MaxHandlerSteps == 2
\* Handler and create_job calls of the simulator in one behaviour of
\* SpecSim.
MaxSimSteps == 1
\* Publish calls of the simulator after which no producer loop begins
\* another cycle.
MaxPublishes == 3
\* start() calls in one behaviour of SpecRestart.
MaxStarts == 2
\* Job assignments handled in one behaviour of SpecRespond.
MaxAssignments == 2
\* create_job calls of the simulator in one behaviour of SpecEcho.
MaxEchoJobs == 1
\* Handler and create_job calls in one behaviour of SpecCreate.
MaxCreateSteps == 4
\* Handler and create_job calls in one behaviour of SpecFrame.
MaxFrameSteps == 3
\* Handler and create_job calls, and connection losses, in one behaviour of
\* SpecLink.
MaxLinkSteps == 3
MaxDrops == 2

\* ------------------------------------------------------- program constants
\* dashboard.emergencies[-10:]
RecentWindow == 10

VARIABLES
  vehicles,        \* Car2XDashboard.vehicles: vehicle id -> last status payload
  infrastructure,  \* Car2XDashboard.infrastructure: element id -> last payload
  emergencies,     \* Car2XDashboard.emergencies: list of broadcast payloads
  jobs,            \* Car2XDashboard.jobs: job id -> job record
  emitted,         \* socketio.emit calls made by the last handler call
  published,       \* mqtt_client.publish calls made by the last create_job call
  returned,        \* value returned by the last create_job call ("" before any)
  outcome,         \* the path the last on_mqtt_message call took
  escaped,         \* an exception propagated out of on_mqtt_message
  trace,           \* history: the calls made so far, in order
  codec,           \* a topic being formatted and parsed back (SpecCodec)
  link,            \* the dashboard's MQTT connection and its subscriptions
  reader,          \* a read of the API in progress (SpecRead)
  creating,        \* a create_job call in progress, statement by statement
  running,         \* V2XSimulator.running
  client,          \* V2XSimulator.client: "new", "connected", "disconnected"
  sim_vehicles,    \* V2XSimulator.vehicles
  sim_jobs,        \* V2XSimulator.jobs
  threads,         \* the threads the simulator started, in start order
  sim_published,   \* history: the client.publish calls of the simulator
  cursor           \* how many of them the broker has handed back to it

dashVars == <<vehicles, infrastructure, emergencies, jobs, emitted, published,
              returned, outcome, escaped, trace, codec, link, reader,
              creating>>
dashVars_but_trace ==
  <<vehicles, infrastructure, emergencies, jobs, emitted, published, returned,
    outcome, escaped, codec, link, reader, creating>>
simVars == <<running, client, sim_vehicles, sim_jobs, threads,
             sim_published, cursor>>
vars == <<dashVars, simVars>>

\* ----------------------------------------------------------------- strings
Slash == "/"

\* sep.join(segments) with sep = "/": what the f-strings of the code build.
RECURSIVE Join(_)
Join(segs) ==
  IF segs = << >> THEN << >>
  ELSE LET h == IF Head(segs) = "" THEN << >> ELSE <<Head(segs)>>
       IN IF Len(segs) = 1 THEN h ELSE h \o <<Slash>> \o Join(Tail(segs))

\* str.split('/'): cur is the segment being read, acc the segments read.
RECURSIVE SplitAcc(_, _, _)
SplitAcc(s, cur, acc) ==
  IF s = << >> THEN Append(acc, cur)
  ELSE IF Head(s) = Slash THEN SplitAcc(Tail(s), "", Append(acc, cur))
  ELSE SplitAcc(Tail(s), Head(s), acc)

Split(s) == SplitAcc(s, "", << >>)

\* ---------------------------------------------------------------- payloads
JsonValue(shape, vehicle_id, job_id, n) ==
  [shape |-> shape, vehicle_id |-> vehicle_id, job_id |-> job_id, n |-> n]

NoValue == JsonValue("none", "", "", 0)

\* Bytes that are the JSON text of v / bytes that are no JSON text.
Encoded(v) == [json |-> TRUE, value |-> v]
Garbage == [json |-> FALSE, value |-> NoValue]

\* A faulty decoder: it yields an empty value for bytes it cannot read
\* instead of raising.
JsonLoadsLenient(payload) == [ok |-> TRUE, value |-> payload.value]

\* json.loads(msg.payload.decode()): the value, or an exception.
JsonLoads(payload) ==
  IF payload.json THEN [ok |-> TRUE, value |-> payload.value]
  ELSE [ok |-> FALSE, value |-> NoValue]

\* ------------------------------------------------------------------ stores
EmptyMap == [k \in {} |-> NoValue]

\* A faulty dict write: dict.setdefault(key, value), which keeps a value
\* already stored.
DictSetDefault(d, key, value) ==
  [k \in DOMAIN d \cup {key} |-> IF k \in DOMAIN d THEN d[k] ELSE value]

\* A faulty dict write: the dict is replaced by one that holds the key only.
DictSetFresh(d, key, value) == [k \in {key} |-> value]

\* d[key] = value on a dict.
DictSet(d, key, value) ==
  [k \in DOMAIN d \cup {key} |-> IF k = key THEN value ELSE d[k]]

\* ---------------------------------------------------- Car2XDashboard state
\* The job dict built by create_job.  The 'responses' key, absent until the
\* first response, is the empty list here, as .get('responses', []) reads it.
JobRecord(job_id, job_type, target_vehicles, parameters) ==
  [job_id |-> job_id, type |-> job_type, target_vehicles |-> target_vehicles,
   parameters |-> parameters, status |-> "pending", responses |-> << >>]

NoOutcome == [branch |-> "none", exc |-> "none"]

\* History entries: one per call, with the call's arguments (and, for
\* create_job, the id it drew).
Handled(m) ==
  [op |-> "on_mqtt_message", topic |-> m.topic, payload |-> m.payload,
   job_id |-> "", target_vehicles |-> << >>]
Created(job_id, target_vehicles) ==
  [op |-> "create_job", topic |-> << >>, payload |-> Garbage,
   job_id |-> job_id, target_vehicles |-> target_vehicles]

NoAddress == [kind |-> "none", id |-> ""]
CodecIdle == [pc |-> "idle", kind |-> "none", id |-> << >>, topic |-> << >>,
              parsed |-> NoAddress]

\* The filters on_mqtt_connect subscribes to, as level tuples.
Subscriptions ==
  {<<"v2x", "vehicles", "+", "status">>, <<"v2x", "vehicles", "+", "emergency">>,
   <<"v2x", "infrastructure", "+">>, <<"v2x", "emergency", "broadcast">>,
   <<"v2x", "jobs", "+", "response">>}

\* The connection once connect_mqtt has connected and on_mqtt_connect has
\* run; `held` remembers the four stores as they were at the last disconnect.
LinkUp == [up |-> TRUE, subscriptions |-> Subscriptions, drops |-> 0,
           held |-> << >>]
ReaderIdle == [pc |-> "idle", store |-> "none", began |-> EmptyMap,
               result |-> EmptyMap]
\* No create_job call in progress: pc is the statement the call executes
\* next (0: none), by the program whose create_job it is, job the dict it
\* built; `assigned` remembers whose assignments have been published.
NotCreating ==
  [pc |-> 0, by |-> "none", job |-> JobRecord("", "", << >>, "{}"),
   assigned |-> {}]

\* V2XSimulator.__init__, and the dashboard parts the simulator never
\* touches.
InitRest ==
  /\ link = LinkUp
  /\ reader = ReaderIdle
  /\ creating = NotCreating
  /\ cursor = 0
  /\ running = FALSE
  /\ client = "new"
  /\ sim_vehicles = EmptyMap
  /\ sim_jobs = EmptyMap
  /\ threads = << >>
  /\ sim_published = << >>

\* The dashboard once the module has built it and connect_mqtt has connected
\* it; the simulator as its constructor leaves it.
Init ==
  /\ vehicles = EmptyMap
  /\ infrastructure = EmptyMap
  /\ emergencies = << >>
  /\ jobs = EmptyMap
  /\ emitted = << >>
  /\ published = << >>
  /\ returned = ""
  /\ outcome = NoOutcome
  /\ escaped = FALSE
  /\ trace = << >>
  /\ codec = CodecIdle
  /\ InitRest

\* ------------------------------------------------------- on_mqtt_message
\* topic_parts[i] of the code (0-based) and whether reading it raises.
Part(parts, i) == parts[i + 1]
HasPart(parts, i) == i < Len(parts)

Route(branch, id) == [branch |-> branch, exc |-> "none", id |-> id]
Raised(exc) == [branch |-> "none", exc |-> exc, id |-> ""]

\* A faulty chain: the vehicles branch does not look at topic_parts[3], so
\* a vehicle emergency is stored as a status.
DashRouteNoSubkind(parts) ==
  IF ~HasPart(parts, 1) THEN Raised("IndexError")
  ELSE IF Part(parts, 1) = "vehicles" THEN
    IF ~HasPart(parts, 2) THEN Raised("IndexError")
    ELSE Route("status", Part(parts, 2))
  ELSE IF Part(parts, 1) = "infrastructure" THEN
    IF ~HasPart(parts, 2) THEN Raised("IndexError")
    ELSE Route("infrastructure", Part(parts, 2))
  ELSE IF Part(parts, 1) = "emergency" THEN Route("broadcast", "")
  ELSE IF Part(parts, 1) = "jobs" THEN
    IF ~HasPart(parts, 2) THEN Raised("IndexError")
    ELSE Route("jobs", Part(parts, 2))
  ELSE Route("none", "")

\* The if/elif chain of on_mqtt_message, conditions evaluated in the code's
\* order (an `and` stops at its first false operand): the branch entered and
\* the id it reads, or the IndexError a topic_parts[i] raises.
DashRoute(parts) ==
  IF ~HasPart(parts, 1) THEN Raised("IndexError")
  ELSE IF Part(parts, 1) = "vehicles" THEN
    IF ~HasPart(parts, 3) THEN Raised("IndexError")
    ELSE IF Part(parts, 3) = "status" THEN Route("status", Part(parts, 2))
    ELSE IF Part(parts, 3) = "emergency"
      THEN Route("vehicle_emergency", Part(parts, 2))
    ELSE Route("none", "")
  ELSE IF Part(parts, 1) = "infrastructure" THEN
    IF ~HasPart(parts, 2) THEN Raised("IndexError")
    ELSE Route("infrastructure", Part(parts, 2))
  ELSE IF Part(parts, 1) = "emergency" THEN Route("broadcast", "")
  ELSE IF Part(parts, 1) = "jobs" THEN
    IF ~HasPart(parts, 2) THEN Raised("IndexError")
    ELSE Route("jobs", Part(parts, 2))
  ELSE Route("none", "")

\* A faulty handler: except IndexError, which lets any other exception out.
CaughtIndexError(exc) == exc = "IndexError"

\* except Exception: every exception the try block raises is caught.
Caught(exc) == TRUE

\* self.emergencies.append(message)
AppendEmergency(list, message) == Append(list, message)

\* A faulty response handler: no membership test, so an unknown id gets a
\* record of its own.
RecordResponseAutoCreate(registry, job_id, message) ==
  [k \in DOMAIN registry \cup {job_id} |->
     IF k = job_id
       THEN [job_id |-> job_id, type |-> "", target_vehicles |-> << >>,
             parameters |-> "{}", status |-> "pending",
             responses |-> IF k \in DOMAIN registry
                             THEN Append(registry[k].responses, message)
                             ELSE <<message>>]
       ELSE registry[k]]

\* if job_id in self.jobs: the job's response list gets the message at its
\* end; an id the registry does not hold changes nothing.
RecordResponse(registry, job_id, message) ==
  IF job_id \in DOMAIN registry
    THEN [registry EXCEPT ![job_id].responses = Append(@, message)]
    ELSE registry

Emit(event, id, data) == [event |-> event, id |-> id, data |-> data]

on_mqtt_message(m) ==
  LET parts == Split(m.topic)
      dec == JsonLoads(m.payload)
      r == IF dec.ok THEN DashRoute(parts) ELSE Raised("JSONDecodeError")
      message == dec.value
      known == r.branch = "jobs" /\ r.id \in DOMAIN jobs
  IN /\ trace' = Append(trace, Handled(m))
     /\ vehicles' = IF r.branch = "status"
                      THEN DictSet(vehicles, r.id, message) ELSE vehicles
     /\ infrastructure' = IF r.branch = "infrastructure"
                            THEN DictSet(infrastructure, r.id, message)
                            ELSE infrastructure
     /\ emergencies' = IF r.branch = "broadcast"
                         THEN AppendEmergency(emergencies, message)
                         ELSE emergencies
     /\ jobs' = IF r.branch = "jobs"
                  THEN RecordResponse(jobs, r.id, message) ELSE jobs
     /\ emitted' =
          CASE r.branch = "status" -> <<Emit("vehicle_update", "", message)>>
            [] r.branch = "vehicle_emergency" ->
                 <<Emit("vehicle_emergency", r.id, message)>>
            [] r.branch = "infrastructure" ->
                 <<Emit("infrastructure_update", "", message)>>
            [] r.branch = "broadcast" -> <<Emit("emergency_alert", "", message)>>
            [] known -> <<Emit("job_response", r.id, message)>>
            [] OTHER -> << >>
     /\ outcome' = [branch |-> IF r.branch = "jobs"
                                 THEN (IF known THEN "job_response"
                                       ELSE "job_unknown")
                                 ELSE r.branch,
                    exc |-> r.exc]
     /\ escaped' = (escaped \/ (r.exc # "none" /\ ~Caught(r.exc)))
     /\ UNCHANGED <<published, returned, codec, link, reader, creating,
                    simVars>>

\* ------------------------------------------------------------- create_job
\* str(uuid.uuid4())[:8]: eight hexadecimal digits drawn at random.  The
\* 16^8 values are cut down to this set; the draw does not look at the
\* registry.
JobIdSpace == {"1a2b3c4d", "5e6f7a8b"}

\* f"v2x/jobs/{job_id}/assign"
AssignTopic(job_id) == <<"v2x", Slash, "jobs", Slash>> \o job_id \o <<Slash, "assign">>

\* parameters or {}
ParametersOr(parameters) == IF parameters = "None" THEN "{}" ELSE parameters

create_job(job_type, target_vehicles, parameters) ==
  \E job_id \in JobIdSpace :
    LET job == JobRecord(job_id, job_type, target_vehicles,
                         ParametersOr(parameters))
    IN /\ jobs' = DictSet(jobs, job_id, job)
       /\ published' = <<[topic |-> AssignTopic(<<job_id>>), payload |-> job]>>
       /\ returned' = job_id
       /\ trace' = Append(trace, Created(job_id, target_vehicles))
       /\ UNCHANGED <<vehicles, infrastructure, emergencies, emitted,
                      outcome, escaped, codec, link, reader, creating,
                      simVars>>

\* ----------------------------------------------------------------- reads
\* A faulty slice: list[:n], the first n.
FirstN(list, n) == IF Len(list) <= n THEN list ELSE SubSeq(list, 1, n)

\* get_emergencies, handle_data_request: dashboard.emergencies[-10:]
LastN(list, n) ==
  IF Len(list) <= n THEN list ELSE SubSeq(list, Len(list) - n + 1, Len(list))

get_emergencies == LastN(emergencies, RecentWindow)

\* get_jobs: jsonify(dashboard.jobs)
get_jobs == jobs

\* ------------------------------------------------------------------ topics
Kinds == {"vehicle-status", "vehicle-emergency", "infrastructure-update",
          "emergency-broadcast", "job-assignment", "job-response"}

\* A segment as a string.
Str(seg) == IF seg = "" THEN << >> ELSE <<seg>>

\* The levels of the topic filter a kind is subscribed under: on_mqtt_connect
\* of the dashboard, and on_connect of the simulator for job assignments.
TopicFilter(kind) ==
  CASE kind = "vehicle-status" -> <<"v2x", "vehicles", "+", "status">>
    [] kind = "vehicle-emergency" -> <<"v2x", "vehicles", "+", "emergency">>
    [] kind = "infrastructure-update" -> <<"v2x", "infrastructure", "+">>
    [] kind = "emergency-broadcast" -> <<"v2x", "emergency", "broadcast">>
    [] kind = "job-assignment" -> <<"v2x", "jobs", "+", "assign">>
    [] kind = "job-response" -> <<"v2x", "jobs", "+", "response">>

\* MQTT matching of a topic's levels against a filter whose only wildcard
\* is "+": the same number of levels, and each level equal or "+".
FilterMatches(filter, levels) ==
  /\ Len(filter) = Len(levels)
  /\ \A i \in 1..Len(filter) : filter[i] = "+" \/ filter[i] = levels[i]

\* The kind and id a topic carries by the subscribed patterns (the id is
\* the level under "+"), or NoAddress when no pattern matches.
Address(topic) ==
  LET levels == Split(topic)
      ks == {k \in Kinds : FilterMatches(TopicFilter(k), levels)}
  IN IF ks = {} THEN NoAddress
     ELSE LET k == CHOOSE kk \in ks : TRUE
          IN [kind |-> k,
              id |-> IF k = "emergency-broadcast" THEN "" ELSE levels[3]]

\* The topic of a message of a kind about an id (a string), as the f-strings
\* that publish it build it; no code publishes a vehicle emergency, whose
\* topic is its filter with the id for "+".
FormatTopic(kind, id) ==
  CASE kind = "vehicle-status" ->
         <<"v2x", Slash, "vehicles", Slash>> \o id \o <<Slash, "status">>
    [] kind = "vehicle-emergency" ->
         <<"v2x", Slash, "vehicles", Slash>> \o id \o <<Slash, "emergency">>
    [] kind = "infrastructure-update" ->
         <<"v2x", Slash, "infrastructure", Slash>> \o id
    [] kind = "emergency-broadcast" ->
         <<"v2x", Slash, "emergency", Slash, "broadcast">>
    [] kind = "job-assignment" -> AssignTopic(id)
    [] kind = "job-response" ->
         <<"v2x", Slash, "jobs", Slash>> \o id \o <<Slash, "response">>

\* The kind and id on_mqtt_message reads from a topic: the branch it enters
\* names the kind it handles the message as.
DashParse(topic) ==
  LET r == DashRoute(Split(topic))
  IN CASE r.branch = "status" -> [kind |-> "vehicle-status", id |-> r.id]
       [] r.branch = "vehicle_emergency" ->
            [kind |-> "vehicle-emergency", id |-> r.id]
       [] r.branch = "infrastructure" ->
            [kind |-> "infrastructure-update", id |-> r.id]
       [] r.branch = "broadcast" -> [kind |-> "emergency-broadcast", id |-> ""]
       [] r.branch = "jobs" -> [kind |-> "job-response", id |-> r.id]
       [] OTHER -> NoAddress

\* ------------------------------------------------------------ environment
VehicleIds == {"V001", "V002"}
InfraIds == {"TL001"}
JobTypes == {"diagnostic"}
\* The target lists of the example jobs, and the list the create_job route
\* passes when the request names none: data.get('target_vehicles', []).
TargetLists == {<< >>, <<"V001">>, <<"V001", "V002">>}
ParameterInputs == {"None"}

IdsOf(kind) ==
  CASE kind \in {"vehicle-status", "vehicle-emergency"} -> VehicleIds
    [] kind = "infrastructure-update" -> InfraIds
    [] kind = "emergency-broadcast" -> {""}
    [] OTHER -> JobIdSpace

Cam(vehicle_id, n) == Encoded(JsonValue("CAM", vehicle_id, "", n))
V2I(infrastructure_id, n) == Encoded(JsonValue("V2I", infrastructure_id, "", n))
Denm(n) == Encoded(JsonValue("DENM", "", "", n))
Response(job_id, vehicle_id, n) ==
  Encoded(JsonValue("response", vehicle_id, job_id, n))
EmptyObject == Encoded(JsonValue("object", "", "", 0))

Message(topic, payload) == [topic |-> topic, payload |-> payload]
MessagesOf(kind, payloads) ==
  {Message(FormatTopic(kind, Str(id)), p) : id \in IdsOf(kind), p \in payloads}

\* What the broker hands the dashboard in Spec: messages on the topics it
\* subscribes to.  A status payload names V001 whichever topic carries it.
Messages ==
  MessagesOf("vehicle-status", {Cam("V001", 1), Cam("V001", 2), Garbage})
  \cup MessagesOf("vehicle-emergency", {EmptyObject})
  \cup MessagesOf("infrastructure-update", {V2I("TL001", 1), V2I("TL001", 2)})
  \cup MessagesOf("emergency-broadcast", {Denm(1)})
  \cup MessagesOf("job-response", {Response("1a2b3c4d", "V001", 1),
                                  Response("1a2b3c4d", "V002", 2), Garbage})

OnMessage ==
  /\ Len(trace) < MaxSteps
  /\ \E m \in Messages : on_mqtt_message(m)

CreateJob ==
  /\ Len(trace) < MaxSteps
  /\ \E t \in JobTypes, tv \in TargetLists, pa \in ParameterInputs :
       create_job(t, tv, pa)

Next == OnMessage \/ CreateJob

Spec == Init /\ [][Next]_vars

\* ------------------------------------------------------------ SpecHistory
\* Emergency broadcasts only, more of them than get_emergencies returns.
Broadcasts == MessagesOf("emergency-broadcast", {Denm(1), Denm(2)})

OnBroadcast ==
  /\ Len(trace) < MaxBroadcasts
  /\ \E m \in Broadcasts : on_mqtt_message(m)

NextHistory == OnBroadcast

SpecHistory == Init /\ [][NextHistory]_vars

\* ------------------------------------------------------------- SpecTopics
\* on_mqtt_message called with any topic, also one outside the
\* subscriptions, on an empty and on a populated coordinator.
WellFormedTopics ==
  UNION {{FormatTopic(k, Str(id)) : id \in IdsOf(k)} : k \in Kinds}

DropAt(segs, i) == SubSeq(segs, 1, i - 1) \o SubSeq(segs, i + 1, Len(segs))
ReplaceAt(segs, i, seg) == [segs EXCEPT ![i] = seg]

\* A well-formed topic with one level left out.
MissingSegmentTopics ==
  UNION {{Join(DropAt(Split(t), i)) : i \in 1..Len(Split(t))} :
         t \in WellFormedTopics}
\* ... under another domain, with a level added at the end, with an unknown
\* last level, under an unknown category.
WrongDomainTopics ==
  {Join(ReplaceAt(Split(t), 1, "test")) : t \in WellFormedTopics}
ExtraSegmentTopics ==
  {Join(Append(Split(t), "extra")) : t \in WellFormedTopics}
UnknownSubkindTopics ==
  {Join(ReplaceAt(Split(t), Len(Split(t)), "telemetry")) :
     t \in {u \in WellFormedTopics : Len(Split(u)) = 4}}
UnknownCategoryTopics ==
  {Join(ReplaceAt(Split(t), 2, "weather")) : t \in WellFormedTopics}

AnyTopics ==
  WellFormedTopics \cup MissingSegmentTopics \cup WrongDomainTopics
  \cup ExtraSegmentTopics \cup UnknownSubkindTopics \cup UnknownCategoryTopics

AnyPayloads ==
  {Garbage, EmptyObject, Cam("V001", 2), Response("1a2b3c4d", "V001", 2)}

AnyMessages == {Message(t, p) : t \in AnyTopics, p \in AnyPayloads}

\* The coordinator after a status of V001, an update of TL001, a broadcast
\* and a create_job that drew 1a2b3c4d.
InitPopulated ==
  /\ vehicles = DictSet(EmptyMap, "V001", Cam("V001", 1).value)
  /\ infrastructure = DictSet(EmptyMap, "TL001", V2I("TL001", 1).value)
  /\ emergencies = AppendEmergency(<< >>, Denm(1).value)
  /\ jobs = DictSet(EmptyMap, "1a2b3c4d",
                    JobRecord("1a2b3c4d", "diagnostic", <<"V001", "V002">>,
                              ParametersOr("None")))
  /\ emitted = << >>
  /\ published = << >>
  /\ returned = "1a2b3c4d"
  /\ outcome = NoOutcome
  /\ escaped = FALSE
  /\ trace = << >>
  /\ codec = CodecIdle
  /\ InitRest

OnAnyMessage ==
  /\ Len(trace) < MaxTopicSteps
  /\ \E m \in AnyMessages : on_mqtt_message(m)

NextTopics == OnAnyMessage

InitTopics == Init \/ InitPopulated

SpecTopics == InitTopics /\ [][NextTopics]_vars

\* -------------------------------------------------------------- SpecCodec
\* A topic formatted for a kind and an id, then parsed by on_mqtt_message.
IdSegments == {"", "V001", "TL001", "1a2b3c4d"}

RECURSIVE SegmentLists(_)
SegmentLists(n) ==
  IF n = 0 THEN {<< >>}
  ELSE {Append(l, seg) : l \in SegmentLists(n - 1), seg \in IdSegments}

\* The id strings: up to MaxIdSegments segments with "/" between them.
CodecIds == {Join(l) : l \in UNION {SegmentLists(n) : n \in 1..MaxIdSegments}}

InitCodec ==
  /\ vehicles = EmptyMap
  /\ infrastructure = EmptyMap
  /\ emergencies = << >>
  /\ jobs = EmptyMap
  /\ emitted = << >>
  /\ published = << >>
  /\ returned = ""
  /\ outcome = NoOutcome
  /\ escaped = FALSE
  /\ trace = << >>
  /\ InitRest
  /\ \E k \in Kinds, id \in CodecIds :
       codec = [pc |-> "input", kind |-> k, id |-> id, topic |-> << >>,
                parsed |-> NoAddress]

CodecFormat ==
  /\ codec.pc = "input"
  /\ codec' = [codec EXCEPT !.pc = "formatted",
                            !.topic = FormatTopic(codec.kind, codec.id)]
  /\ UNCHANGED <<vehicles, infrastructure, emergencies, jobs, emitted,
                 published, returned, outcome, escaped, trace, link, reader,
                 creating, simVars>>

CodecParse ==
  /\ codec.pc = "formatted"
  /\ codec' = [codec EXCEPT !.pc = "parsed", !.parsed = DashParse(codec.topic)]
  /\ UNCHANGED <<vehicles, infrastructure, emergencies, jobs, emitted,
                 published, returned, outcome, escaped, trace, link, reader,
                 creating, simVars>>

NextCodec == CodecFormat \/ CodecParse

SpecCodec == InitCodec /\ [][NextCodec]_vars

\* ----------------------------------------------------------- V2XSimulator
\* A thread the simulator started: its target function, where it stands,
\* the index of the item its for loop handles next, and for send_responses
\* the job id and the job data of the closure.
Thread(kind, pc, job_id, job_data) ==
  [kind |-> kind, pc |-> pc, i |-> 1, job_id |-> job_id,
   job_data |-> job_data]

\* A client.publish call: the thread that made it (0: the caller of
\* create_job), the function it runs, and the state of the client then.
Publish(t, topic, payload) ==
  [thread |-> t, by |-> IF t = 0 THEN "create_job" ELSE threads[t].kind,
   topic |-> topic, payload |-> payload, client |-> client]

SimHandled(m) ==
  [op |-> "on_message", topic |-> m.topic, payload |-> m.payload,
   job_id |-> "", target_vehicles |-> << >>]
SimCreated(job_id, target_vehicles) ==
  [op |-> "sim_create_job", topic |-> << >>, payload |-> Garbage,
   job_id |-> job_id, target_vehicles |-> target_vehicles]

\* The if/elif chain of on_message: both the vehicles and the jobs
\* conditions read topic_parts[3].
SimRoute(parts) ==
  IF ~HasPart(parts, 1) THEN Raised("IndexError")
  ELSE IF Part(parts, 1) = "vehicles" THEN
    IF ~HasPart(parts, 3) THEN Raised("IndexError")
    ELSE IF Part(parts, 3) = "status" THEN Route("status", Part(parts, 2))
    ELSE IF Part(parts, 3) = "emergency"
      THEN Route("vehicle_emergency", Part(parts, 2))
    ELSE Route("none", "")
  ELSE IF Part(parts, 1) = "jobs" THEN
    IF ~HasPart(parts, 3) THEN Raised("IndexError")
    ELSE IF Part(parts, 3) = "assign" THEN Route("assign", Part(parts, 2))
    ELSE IF Part(parts, 3) = "response" THEN Route("response", Part(parts, 2))
    ELSE Route("none", "")
  ELSE Route("none", "")

\* except Exception in on_message.
SimCaught(exc) == TRUE

\* handle_job_assignment: a send_responses thread is started, asleep.
handle_job_assignment(job_id, job_data) ==
  Append(threads, Thread("send_responses", "sleep", job_id, job_data))

\* handle_job_response: the code of the dashboard's jobs branch.
handle_job_response(job_id, response) ==
  RecordResponse(sim_jobs, job_id, response)

on_message(m) ==
  LET parts == Split(m.topic)
      dec == JsonLoads(m.payload)
      r == IF dec.ok THEN SimRoute(parts) ELSE Raised("JSONDecodeError")
      message == dec.value
  IN /\ trace' = Append(trace, SimHandled(m))
     /\ sim_vehicles' = IF r.branch = "status"
                          THEN DictSet(sim_vehicles, r.id, message)
                          ELSE sim_vehicles
     /\ threads' = IF r.branch = "assign"
                     THEN handle_job_assignment(r.id, message) ELSE threads
     /\ sim_jobs' = IF r.branch = "response"
                      THEN handle_job_response(r.id, message) ELSE sim_jobs
     /\ outcome' = [branch |-> r.branch, exc |-> r.exc]
     /\ escaped' = (escaped \/ (r.exc # "none" /\ ~SimCaught(r.exc)))
     /\ UNCHANGED <<vehicles, infrastructure, emergencies, jobs, emitted,
                    published, returned, codec, link, reader, creating,
                    running, client, sim_published>>

\* create_job of the simulator: one publish per entry of target_vehicles,
\* each on the job's assign topic with the whole job as payload.
sim_create_job(job_type, target_vehicles, parameters) ==
  \E job_id \in JobIdSpace :
    LET job == JobRecord(job_id, job_type, target_vehicles,
                         ParametersOr(parameters))
    IN /\ sim_jobs' = DictSet(sim_jobs, job_id, job)
       /\ sim_published' =
            sim_published \o
              [i \in 1..Len(target_vehicles) |->
                 Publish(0, AssignTopic(<<job_id>>), Encoded(job))]
       /\ trace' = Append(trace, SimCreated(job_id, target_vehicles))
       /\ UNCHANGED <<dashVars_but_trace, running, client, sim_vehicles,
                      threads, cursor>>

\* start(): connect, loop_start, running = True, and the three producer
\* threads.
start ==
  /\ client' = "connected"
  /\ running' = TRUE
  /\ threads' = threads \o <<Thread("simulate_vehicles", "init", "", NoValue),
                              Thread("simulate_infrastructure", "test", "", NoValue),
                              Thread("simulate_emergency_events", "test", "",
                                     NoValue)>>
  /\ UNCHANGED <<dashVars, sim_vehicles, sim_jobs, sim_published, cursor>>

\* stop(): running = False, loop_stop, disconnect.  It waits for no thread.
stop ==
  /\ client = "connected"
  /\ running' = FALSE
  /\ client' = "disconnected"
  /\ UNCHANGED <<dashVars, sim_vehicles, sim_jobs, threads, sim_published,
                 cursor>>

\* The ids the producer loops go through, in the order of their lists (the
\* first ones of each list).
VehicleOrder == <<"V001", "V002">>
TrafficLights == <<"TL001">>

\* The vehicle dict simulate_vehicles builds; n counts its position updates.
SimVehicle(vehicle_id) == JsonValue("vehicle", vehicle_id, "", 0)

\* vehicle["speed"], vehicle["heading"], vehicle["position"] ... are there:
\* the dict is one the loop built or a CAM message stored by on_message.
HasVehicleKeys(vehicle) == vehicle.shape \in {"vehicle", "CAM"}

\* The publish calls of one cycle of a producer loop.
CycleLength(kind) ==
  CASE kind = "simulate_vehicles" -> Len(VehicleOrder)
    [] kind = "simulate_infrastructure" -> Len(TrafficLights)
    [] OTHER -> 1

\* The publish calls the cycles under way in threads 1..n have yet to make.
RECURSIVE Outstanding(_)
Outstanding(n) ==
  IF n = 0 THEN 0
  ELSE Outstanding(n - 1) +
       (IF threads[n].kind # "send_responses" /\ threads[n].pc = "body"
          THEN CycleLength(threads[n].kind) - threads[n].i + 1 ELSE 0)

\* A cycle is begun only while the publish calls made and those under way
\* are fewer than MaxPublishes; a cycle begun is never cut off.
CanBegin(t) ==
  Len(sim_published) + Outstanding(Len(threads)) < MaxPublishes

\* A faulty loop: while True, which never looks at self.running.
LoopForever(t) ==
  /\ threads[t].pc = "test"
  /\ CanBegin(t)
  /\ threads' = [threads EXCEPT ![t].pc = "body", ![t].i = 1]

\* while self.running, reached when the thread starts and when the
\* time.sleep(...) that ends a cycle is over: the loop goes on with its body
\* or returns.
LoopTest(t) ==
  /\ threads[t].pc = "test"
  /\ running => CanBegin(t)
  /\ threads' = [threads EXCEPT ![t].pc = IF running THEN "body" ELSE "done",
                                ![t].i = 1]

\* The time.sleep(2) of send_responses is over.
LoopWake(t, to) ==
  /\ threads[t].pc = "sleep"
  /\ threads' = [threads EXCEPT ![t].pc = to]

\* The for loop has handled item i of n; after the last one the thread
\* sleeps until its next test of self.running.
Advance(t, n) ==
  [threads EXCEPT ![t].pc = IF threads[t].i >= n THEN "test" ELSE "body",
                  ![t].i = threads[t].i + 1]

\* simulate_vehicles: the dicts of the vehicles are built, then every cycle
\* moves each vehicle and publishes its CAM message (publish_cam_message).
simulate_vehicles(t) ==
  \/ /\ threads[t].pc = "init"
     /\ sim_vehicles' =
          [id \in DOMAIN sim_vehicles \cup {VehicleOrder[k] : k \in 1..Len(VehicleOrder)}
             |-> IF \E k \in 1..Len(VehicleOrder) : VehicleOrder[k] = id
                   THEN SimVehicle(id) ELSE sim_vehicles[id]]
     /\ threads' = [threads EXCEPT ![t].pc = "test"]
     /\ UNCHANGED sim_published
  \/ LoopTest(t) /\ UNCHANGED <<sim_vehicles, sim_published>>
  \/ /\ threads[t].pc = "body"
     /\ LET vid == VehicleOrder[threads[t].i]
        IN IF vid \notin DOMAIN sim_vehicles
             THEN /\ threads' = Advance(t, Len(VehicleOrder))
                  /\ UNCHANGED <<sim_vehicles, sim_published>>
           ELSE IF ~HasVehicleKeys(sim_vehicles[vid])
             THEN /\ threads' = [threads EXCEPT ![t].pc = "raised"]
                  /\ UNCHANGED <<sim_vehicles, sim_published>>
           ELSE LET vehicle == [sim_vehicles[vid] EXCEPT !.n = @ + 1]
                IN /\ sim_vehicles' = [sim_vehicles EXCEPT ![vid] = vehicle]
                   /\ sim_published' =
                        Append(sim_published,
                               Publish(t, FormatTopic("vehicle-status",
                                                      Str(vehicle.vehicle_id)),
                                       Cam(vehicle.vehicle_id, vehicle.n)))
                   /\ threads' = Advance(t, Len(VehicleOrder))

\* simulate_infrastructure: every cycle publishes a V2I message per light.
simulate_infrastructure(t) ==
  \/ LoopTest(t) /\ UNCHANGED sim_published
  \/ /\ threads[t].pc = "body"
     /\ LET id == TrafficLights[threads[t].i]
        IN sim_published' =
             Append(sim_published,
                    Publish(t, FormatTopic("infrastructure-update", Str(id)),
                            V2I(id, 1)))
     /\ threads' = Advance(t, Len(TrafficLights))

\* simulate_emergency_events: every cycle broadcasts a DENM message
\* (create_emergency_event) or, by the draw of random.random(), nothing.
simulate_emergency_events(t) ==
  \/ LoopTest(t) /\ UNCHANGED sim_published
  \/ /\ threads[t].pc = "body"
     /\ \/ sim_published' =
             Append(sim_published,
                    Publish(t, FormatTopic("emergency-broadcast", << >>),
                            Denm(1)))
        \/ UNCHANGED sim_published
     /\ threads' = Advance(t, 1)

\* job_data.get('target_vehicles', [])
TargetsOf(job_data) ==
  IF "target_vehicles" \in DOMAIN job_data THEN job_data.target_vehicles
  ELSE << >>

\* A faulty send_responses: it responds for the first target only.
send_first_response(t) ==
  LET targets == TargetsOf(threads[t].job_data)
  IN \/ /\ LoopWake(t, IF targets = << >> THEN "done" ELSE "body")
        /\ UNCHANGED sim_published
     \/ /\ threads[t].pc = "body"
        /\ sim_published' =
             Append(sim_published,
                    Publish(t, FormatTopic("job-response",
                                           Str(threads[t].job_id)),
                            Response(threads[t].job_id, targets[1], 1)))
        /\ threads' = [threads EXCEPT ![t].pc = "done"]

\* send_responses: after its sleep the thread publishes one response per
\* target of the job data and ends.  It reads neither self.running nor the
\* state of the client.
send_responses(t) ==
  LET targets == TargetsOf(threads[t].job_data)
  IN \/ /\ LoopWake(t, IF targets = << >> THEN "done" ELSE "body")
        /\ UNCHANGED sim_published
     \/ /\ threads[t].pc = "body"
        /\ sim_published' =
             Append(sim_published,
                    Publish(t, FormatTopic("job-response",
                                           Str(threads[t].job_id)),
                            Response(threads[t].job_id,
                                     targets[threads[t].i], 1)))
        /\ threads' =
             [threads EXCEPT ![t].pc = IF threads[t].i >= Len(targets)
                                         THEN "done" ELSE "body",
                             ![t].i = threads[t].i + 1]

\* ---------------------------------------------------------------- SpecSim
\* The simulator: started once, its threads running, messages arriving,
\* jobs created, and stopped.
JobMessage(job_id, target_vehicles) ==
  Message(AssignTopic(<<job_id>>),
          Encoded(JobRecord(job_id, "diagnostic", target_vehicles, "{}")))

\* What the broker hands the simulator: an assignment (the dashboard's or
\* its own), a status with a payload that is no CAM message, a response.
SimMessages ==
  {JobMessage("1a2b3c4d", <<"V001", "V002">>),
   Message(FormatTopic("vehicle-status", <<"V001">>), EmptyObject),
   Message(FormatTopic("job-response", <<"1a2b3c4d">>),
           Response("1a2b3c4d", "V001", 1))}

ThreadsOf(kind) == {t \in DOMAIN threads : threads[t].kind = kind}

VehiclesLoop ==
  /\ \E t \in ThreadsOf("simulate_vehicles") : simulate_vehicles(t)
  /\ UNCHANGED <<dashVars, running, client, sim_jobs, cursor>>

InfrastructureLoop ==
  /\ \E t \in ThreadsOf("simulate_infrastructure") : simulate_infrastructure(t)
  /\ UNCHANGED <<dashVars, running, client, sim_vehicles, sim_jobs, cursor>>

EmergencyLoop ==
  /\ \E t \in ThreadsOf("simulate_emergency_events") :
       simulate_emergency_events(t)
  /\ UNCHANGED <<dashVars, running, client, sim_vehicles, sim_jobs, cursor>>

SendResponses ==
  /\ \E t \in ThreadsOf("send_responses") : send_responses(t)
  /\ UNCHANGED <<dashVars, running, client, sim_vehicles, sim_jobs, cursor>>

\* The network thread of the client calls on_message while it is connected.
SimOnMessage ==
  /\ client = "connected"
  /\ Len(trace) < MaxSimSteps
  /\ \E m \in SimMessages : on_message(m)
  /\ UNCHANGED cursor

\* The main program calls start() once.
SimStart ==
  /\ client = "new"
  /\ start

SimCreateJob ==
  /\ Len(trace) < MaxSimSteps
  /\ \E t \in JobTypes, pa \in ParameterInputs :
       sim_create_job(t, <<"V001", "V002">>, pa)

NextSim ==
  \/ SimStart \/ stop \/ VehiclesLoop \/ InfrastructureLoop
  \/ EmergencyLoop \/ SendResponses \/ SimOnMessage \/ SimCreateJob

SpecSim == Init /\ [][NextSim]_vars

\* ----------------------------------------------------------- SpecHandlers
\* Both message handlers called with topics that stop short: every prefix,
\* by levels, of a well-formed topic (the empty string included), with a
\* payload that decodes and with one that does not.
Prefixes(t) ==
  {Join(SubSeq(Split(t), 1, n)) : n \in 0..Len(Split(t))}

\* One id of each kind.
HandlerId(kind) ==
  CASE kind \in {"vehicle-status", "vehicle-emergency"} -> "V001"
    [] kind = "infrastructure-update" -> "TL001"
    [] kind = "emergency-broadcast" -> ""
    [] OTHER -> "1a2b3c4d"

HandlerTopics ==
  UNION {Prefixes(FormatTopic(k, Str(HandlerId(k)))) : k \in Kinds}

HandlerMessages ==
  {Message(t, p) : t \in HandlerTopics, p \in {Garbage, Cam("V001", 2)}}

\* The network thread of a client calls the handler for the next message;
\* an exception that got out of a handler would have ended that thread.
OnHandlerMessage ==
  /\ Len(trace) < MaxHandlerSteps
  /\ ~escaped
  /\ \E m \in HandlerMessages : on_mqtt_message(m)

OnSimHandlerMessage ==
  /\ Len(trace) < MaxHandlerSteps
  /\ ~escaped
  /\ \E m \in HandlerMessages : on_message(m)
  /\ UNCHANGED cursor

NextHandlers == OnHandlerMessage \/ OnSimHandlerMessage

SpecHandlers == InitPopulated /\ [][NextHandlers]_vars

\* --------------------------------------------------------------- SpecRead
\* A read of the API while the MQTT thread handles messages.  The routes
\* hand the dict itself to the serializer (jsonify(dashboard.vehicles),
\* emit('initial_data', {'vehicles': dashboard.vehicles, ...})): what the
\* consumer holds is a reference, no lock is taken and nothing is copied,
\* so what it finds when it traverses the dict is the dict as it is then.
StoreNames == {"vehicles", "infrastructure", "jobs"}

\* The dict a name of the dashboard refers to, as it is now.
Deref(name) ==
  CASE name = "vehicles" -> vehicles
    [] name = "infrastructure" -> infrastructure
    [] name = "jobs" -> jobs

\* get_vehicles / get_infrastructure / get_jobs / handle_data_request up to
\* the hand-over: the consumer gets the reference (`began` remembers the
\* dict's value at that moment).
ReadBegin ==
  /\ reader.pc = "idle"
  /\ \E name \in StoreNames :
       reader' = [pc |-> "reading", store |-> name, began |-> Deref(name),
                  result |-> EmptyMap]
  /\ UNCHANGED <<vehicles, infrastructure, emergencies, jobs, emitted,
                 published, returned, outcome, escaped, trace, codec, link,
                 creating, simVars>>

\* The consumer traverses the dict it was handed.
ReadEnd ==
  /\ reader.pc = "reading"
  /\ reader' = [reader EXCEPT !.pc = "done", !.result = Deref(reader.store)]
  /\ UNCHANGED <<vehicles, infrastructure, emergencies, jobs, emitted,
                 published, returned, outcome, escaped, trace, codec, link,
                 creating, simVars>>

ReadMessages ==
  {Message(FormatTopic("vehicle-status", <<"V001">>), Cam("V001", 2)),
   Message(FormatTopic("vehicle-status", <<"V002">>), Cam("V002", 1)),
   Message(FormatTopic("infrastructure-update", <<"TL001">>), V2I("TL001", 2)),
   Message(FormatTopic("emergency-broadcast", << >>), Denm(2)),
   Message(FormatTopic("job-response", <<"1a2b3c4d">>),
           Response("1a2b3c4d", "V001", 1))}

\* The MQTT thread handles a message, whether or not a read is in progress.
ReadIngest ==
  /\ Len(trace) < MaxReadSteps
  /\ \E m \in ReadMessages : on_mqtt_message(m)

NextRead == ReadBegin \/ ReadIngest \/ ReadEnd

SpecRead == InitPopulated /\ [][NextRead]_vars

\* --------------------------------------------------------------- SpecLink
\* The dashboard with its MQTT connection lost and re-established.  The
\* client is built with mqtt.Client() (a clean session) and loop_start()
\* runs the network thread, which reconnects by itself and then calls
\* on_mqtt_connect again.

\* The connection is lost.  setup_mqtt registers no on_disconnect callback:
\* no code of the dashboard runs, and the broker forgets the subscriptions
\* of the session.
Disconnect ==
  /\ link.up
  /\ link.drops < MaxDrops
  /\ link' = [up |-> FALSE, subscriptions |-> {}, drops |-> link.drops + 1,
              held |-> <<vehicles, infrastructure, emergencies, jobs>>]
  /\ UNCHANGED <<vehicles, infrastructure, emergencies, jobs, emitted,
                 published, returned, outcome, escaped, trace, codec, reader,
                 creating, simVars>>

\* A faulty callback: it starts from empty stores on every connect.
on_mqtt_connect_flush ==
  /\ ~link.up
  /\ link' = [link EXCEPT !.up = TRUE, !.subscriptions = Subscriptions]
  /\ vehicles' = EmptyMap
  /\ infrastructure' = EmptyMap
  /\ emergencies' = << >>
  /\ jobs' = EmptyMap
  /\ UNCHANGED <<emitted, published, returned, outcome, escaped, trace,
                 codec, reader, creating, simVars>>

\* on_mqtt_connect: the five subscribe calls, nothing else.
on_mqtt_connect ==
  /\ ~link.up
  /\ link' = [link EXCEPT !.up = TRUE, !.subscriptions = Subscriptions]
  /\ UNCHANGED <<vehicles, infrastructure, emergencies, jobs, emitted,
                 published, returned, outcome, escaped, trace, codec, reader,
                 creating, simVars>>

\* The broker delivers a message on a topic the session is subscribed to.
Delivered(m) ==
  link.up /\ \E f \in link.subscriptions : FilterMatches(f, Split(m.topic))

LinkMessage ==
  /\ Len(trace) < MaxLinkSteps
  /\ \E m \in ReadMessages : Delivered(m) /\ on_mqtt_message(m)

\* POST /api/create_job, which does not look at the connection.
LinkCreateJob ==
  /\ Len(trace) < MaxLinkSteps
  /\ \E t \in JobTypes, pa \in ParameterInputs : create_job(t, <<"V001">>, pa)

NextLink == Disconnect \/ on_mqtt_connect \/ LinkMessage \/ LinkCreateJob

SpecLink == Init /\ [][NextLink]_vars

\* --------------------------------------------------------------- SpecStop
\* The simulator started once and stopped, its producer threads and the
\* messages that arrive meanwhile.  Each producer is a thread of its own
\* that the interpreter keeps scheduling until its function returns: a
\* step a thread can take is taken (weak fairness per loop).
NextStop ==
  \/ SimStart \/ stop \/ VehiclesLoop \/ InfrastructureLoop
  \/ EmergencyLoop \/ SimOnMessage

SpecStop == Init /\ [][NextStop]_vars

SpecStopFair ==
  /\ SpecStop
  /\ WF_vars(VehiclesLoop)
  /\ WF_vars(InfrastructureLoop)
  /\ WF_vars(EmergencyLoop)

\* ------------------------------------------------------------ SpecRestart
\* The simulator started, stopped and started again, and the threads of
\* its vehicle and infrastructure loops.
Starts == Cardinality(ThreadsOf("simulate_vehicles"))

\* start() called again after a stop().
Restart ==
  /\ client = "disconnected"
  /\ Starts < MaxStarts
  /\ start

NextRestart ==
  SimStart \/ stop \/ Restart \/ VehiclesLoop \/ InfrastructureLoop

SpecRestart == Init /\ [][NextRestart]_vars

\* ------------------------------------------------------------ SpecRespond
\* The simulator receiving job assignments, of the dashboard or its own:
\* for two vehicles, for one, and one whose job data names no vehicles.
Assignments ==
  {JobMessage("1a2b3c4d", <<"V001", "V002">>),
   JobMessage("5e6f7a8b", <<"V001">>),
   Message(AssignTopic(<<"1a2b3c4d">>), EmptyObject)}

OnAssignment ==
  /\ client = "connected"
  /\ Len(trace) < MaxAssignments
  /\ \E m \in Assignments : on_message(m)
  /\ UNCHANGED cursor

NextRespond == SimStart \/ stop \/ OnAssignment \/ SendResponses

SpecRespond == Init /\ [][NextRespond]_vars

\* Each send_responses thread is a thread of its own that the interpreter
\* keeps scheduling until its function returns.
SpecRespondFair == SpecRespond /\ WF_vars(SendResponses)

\* --------------------------------------------------------------- SpecEcho
\* The simulator and the broker: the simulator is subscribed to topics it
\* publishes on itself (on_connect), so the broker hands its own messages
\* back to it, in the order of their publication, while it is connected.
SimSubscriptions ==
  {"vehicle-status", "vehicle-emergency", "job-assignment", "job-response"}

\* The broker takes the next publication of the simulator.  A publish call
\* made on a client that is not connected sends nothing; a message under no
\* subscription of the simulator is not handed to it; a message sent with
\* QoS 0 arrives or is lost.
Deliver ==
  /\ client = "connected"
  /\ cursor < Len(sim_published)
  /\ cursor' = cursor + 1
  /\ LET p == sim_published[cursor + 1]
     IN \/ /\ p.client = "connected"
           /\ Address(p.topic).kind \in SimSubscriptions
           /\ on_message(Message(p.topic, p.payload))
        \/ UNCHANGED <<dashVars, running, client, sim_vehicles, sim_jobs,
                       threads, sim_published>>

JobsCreated ==
  Cardinality({i \in 1..Len(trace) : trace[i].op = "sim_create_job"})

\* The main program creates a job for one or two vehicles once connected.
EchoCreateJob ==
  /\ client = "connected"
  /\ JobsCreated < MaxEchoJobs
  /\ \E tv \in {<<"V001">>, <<"V001", "V002">>} :
       sim_create_job("diagnostic", tv, "None")

NextEcho == SimStart \/ EchoCreateJob \/ Deliver \/ SendResponses

SpecEcho == Init /\ [][NextEcho]_vars

\* ---------------------------------------------------------------- SpecCam
\* The vehicle loop of the simulator and the broker handing its CAM
\* messages back to it.
NextCam == SimStart \/ stop \/ VehiclesLoop \/ Deliver

SpecCam == Init /\ [][NextCam]_vars

\* ------------------------------------------------------------- SpecCreate
\* create_job statement by statement, in the thread that calls it, while
\* the network thread of the same program handles job responses.
\* A faulty order: the assignment is published before the job is stored.
CreateOrderReversed == <<"publish", "store", "return">>

\* The statements of create_job after the job dict is built, in the order
\* of the code: self.jobs[job_id] = job, the publish call(s), return job_id.
CreateOrder == <<"store", "publish", "return">>
SimCreateOrder == <<"store", "publish", "return">>

OrderOf(by) == IF by = "dashboard" THEN CreateOrder ELSE SimCreateOrder

\* The call draws its id and builds the job dict.
create_job_begin(by, job_type, target_vehicles, parameters) ==
  \E job_id \in JobIdSpace :
    /\ creating.pc = 0
    /\ creating' = [creating EXCEPT
                      !.pc = 1, !.by = by,
                      !.job = JobRecord(job_id, job_type, target_vehicles,
                                        ParametersOr(parameters))]
    /\ UNCHANGED <<vehicles, infrastructure, emergencies, jobs, emitted,
                   published, returned, outcome, escaped, trace, codec, link,
                   reader, simVars>>

\* The call executes its next statement; after the last one it returns.
\* The simulator's for loop over target_vehicles is one statement here.
create_job_step ==
  /\ creating.pc > 0
  /\ LET by == creating.by
         job == creating.job
         stmt == OrderOf(by)[creating.pc]
         last == creating.pc = Len(OrderOf(by))
         dash == by = "dashboard"
     IN /\ creating' =
             [creating EXCEPT
                !.pc = IF last THEN 0 ELSE @ + 1,
                !.assigned = IF stmt = "publish"
                               THEN @ \cup {[by |-> by, job_id |-> job.job_id]}
                               ELSE @]
        /\ jobs' = IF dash /\ stmt = "store"
                     THEN DictSet(jobs, job.job_id, job) ELSE jobs
        /\ published' =
             IF dash /\ stmt = "publish"
               THEN <<[topic |-> AssignTopic(<<job.job_id>>), payload |-> job]>>
               ELSE published
        /\ returned' = IF dash /\ last THEN job.job_id ELSE returned
        /\ sim_jobs' = IF ~dash /\ stmt = "store"
                         THEN DictSet(sim_jobs, job.job_id, job) ELSE sim_jobs
        /\ sim_published' =
             IF ~dash /\ stmt = "publish"
               THEN sim_published \o
                      [i \in 1..Len(job.target_vehicles) |->
                         Publish(0, AssignTopic(<<job.job_id>>), Encoded(job))]
               ELSE sim_published
        /\ trace' =
             IF ~last THEN trace
             ELSE IF dash
               THEN Append(trace, Created(job.job_id, job.target_vehicles))
             ELSE Append(trace, SimCreated(job.job_id, job.target_vehicles))
        /\ UNCHANGED <<vehicles, infrastructure, emergencies, emitted,
                       outcome, escaped, codec, link, reader, running, client,
                       sim_vehicles, threads, cursor>>

\* The assignment of job id has been published by the program `by`.
Assigned(by, id) == [by |-> by, job_id |-> id] \in creating.assigned

\* The responses the vehicles send to the assignments that program `by`
\* has published.
CreateResponses(by) ==
  {Message(FormatTopic("job-response", <<id>>), Response(id, "V001", 1)) :
     id \in {j \in JobIdSpace : Assigned(by, j)}}

CallsInProgress == IF creating.pc = 0 THEN 0 ELSE 1

CreateBegin ==
  /\ Len(trace) + CallsInProgress < MaxCreateSteps
  /\ create_job_begin("dashboard", "diagnostic", <<"V001">>, "None")

SimCreateBegin ==
  /\ Len(trace) + CallsInProgress < MaxCreateSteps
  /\ create_job_begin("simulator", "diagnostic", <<"V001">>, "None")

CreateResponse ==
  /\ Len(trace) + CallsInProgress < MaxCreateSteps
  /\ \E m \in CreateResponses("dashboard") : on_mqtt_message(m)

SimCreateResponse ==
  /\ Len(trace) + CallsInProgress < MaxCreateSteps
  /\ \E m \in CreateResponses("simulator") : on_message(m)
  /\ UNCHANGED cursor

NextCreate ==
  \/ CreateBegin \/ SimCreateBegin \/ create_job_step
  \/ CreateResponse \/ SimCreateResponse

SpecCreate == Init /\ [][NextCreate]_vars

\* -------------------------------------------------------------- SpecFrame
\* Both programs with the messages of their own subscriptions, one of each
\* kind, and their create_job calls.
FrameMessages ==
  {Message(FormatTopic("vehicle-status", <<"V001">>), Cam("V001", 1)),
   Message(FormatTopic("vehicle-emergency", <<"V001">>), EmptyObject),
   Message(FormatTopic("infrastructure-update", <<"TL001">>), V2I("TL001", 1)),
   Message(FormatTopic("emergency-broadcast", << >>), Denm(1)),
   Message(FormatTopic("job-response", <<"1a2b3c4d">>),
           Response("1a2b3c4d", "V001", 1))}

FrameSimMessages ==
  {Message(FormatTopic("vehicle-status", <<"V001">>), Cam("V001", 1)),
   Message(FormatTopic("vehicle-emergency", <<"V001">>), EmptyObject),
   JobMessage("1a2b3c4d", <<"V001">>),
   Message(FormatTopic("job-response", <<"1a2b3c4d">>),
           Response("1a2b3c4d", "V001", 1))}

FrameMessage ==
  /\ Len(trace) < MaxFrameSteps
  /\ \E m \in FrameMessages : on_mqtt_message(m)

FrameSimMessage ==
  /\ Len(trace) < MaxFrameSteps
  /\ \E m \in FrameSimMessages : on_message(m)
  /\ UNCHANGED cursor

FrameCreateJob ==
  /\ Len(trace) < MaxFrameSteps
  /\ \E t \in JobTypes, pa \in ParameterInputs : create_job(t, <<"V001">>, pa)

FrameSimCreateJob ==
  /\ Len(trace) < MaxFrameSteps
  /\ \E t \in JobTypes, pa \in ParameterInputs :
       sim_create_job(t, <<"V001">>, pa)

NextFrame ==
  FrameMessage \/ FrameSimMessage \/ FrameCreateJob \/ FrameSimCreateJob

SpecFrame == Init /\ [][NextFrame]_vars

\* ================================================================= claims
\* History helpers.  The messages before position i of the history, handled
\* with a payload that decodes, whose topic carries (kind, id): their
\* decoded payloads, in the order handled.
IsHandled(e) == e.op = "on_mqtt_message"
IsCreated(e) == e.op = "create_job"
Carries(e, kind, id) ==
  /\ IsHandled(e)
  /\ e.payload.json
  /\ Address(e.topic) = [kind |-> kind, id |-> id]

ValuesOf(events) == [i \in 1..Len(events) |-> events[i].payload.value]
Decoded(from, kind, id) ==
  ValuesOf(SelectSeq(SubSeq(trace, from, Len(trace)),
                     LAMBDA e : Carries(e, kind, id)))
Last(seq) == seq[Len(seq)]

\* The snapshot a store must hold under id after the history: the payload
\* of the last status message for id, and no entry when there was none.
HoldsLast(store, kind, id) ==
  LET h == Decoded(1, kind, id)
  IN IF h = << >> THEN id \notin DOMAIN store
     ELSE id \in DOMAIN store /\ store[id] = Last(h)

\* C1: for every entity id, the snapshot stored under the id is the decoded
\* payload of the last status message handled for that id, whatever was
\* handled for other ids in between; an id with no message has no snapshot.
C1_LastWriteWins ==
  /\ \A id \in VehicleIds : HoldsLast(vehicles, "vehicle-status", id)
  /\ \A id \in InfraIds : HoldsLast(infrastructure, "infrastructure-update", id)

\* C1 witness: two different snapshots of V001 with a snapshot of V002
\* handled between them; the store holds the second one.
C1_Witness ==
  /\ Len(trace) = 3
  /\ Carries(trace[1], "vehicle-status", "V001")
  /\ Carries(trace[2], "vehicle-status", "V002")
  /\ Carries(trace[3], "vehicle-status", "V001")
  /\ trace[1].payload # trace[3].payload
  /\ vehicles["V001"] = trace[3].payload.value

\* The index of the last create_job that drew id (0: none).
LastCreated(id) ==
  LET at == {i \in 1..Len(trace) : IsCreated(trace[i]) /\ trace[i].job_id = id}
  IN IF at = {} THEN 0 ELSE CHOOSE i \in at : \A j \in at : j <= i

\* C2: a job for which k >= 1 responses were handled since its creation is
\* listed once, with status "active" and exactly those k responses in the
\* order handled; a job with no response has status "pending".
C2_ActiveAfterResponse ==
  \A id \in DOMAIN get_jobs :
    LET rs == Decoded(LastCreated(id) + 1, "job-response", id)
    IN /\ get_jobs[id].responses = rs
       /\ get_jobs[id].status = IF rs # << >> THEN "active" ELSE "pending"

\* C3: handling a response whose job id the registry does not hold lets no
\* exception out and leaves the registry as it was: no record created, no
\* response list changed.
C3_UnknownJobIgnored ==
  [][(/\ trace' # trace
      /\ IsHandled(Last(trace'))
      /\ Address(Last(trace').topic).kind = "job-response"
      /\ Address(Last(trace').topic).id \notin DOMAIN jobs)
     => (jobs' = jobs /\ ~escaped')]_vars

\* C3 witness: a registry with a job in it has just been handed a decodable
\* response for an id it does not hold.
C3_Witness ==
  /\ trace # << >>
  /\ IsHandled(Last(trace))
  /\ Last(trace).payload.json
  /\ Address(Last(trace).topic).kind = "job-response"
  /\ Address(Last(trace).topic).id \notin DOMAIN jobs
  /\ jobs # EmptyMap
  /\ outcome.branch = "job_unknown"

\* C4: once more emergency events were broadcast than the read returns
\* (RecentWindow), reading the recent emergencies gives exactly the last
\* RecentWindow events broadcast, in broadcast order.
C4_RecentIsLastWindow ==
  LET sent == Decoded(1, "emergency-broadcast", "")
  IN Len(sent) > RecentWindow =>
       get_emergencies = SubSeq(sent, Len(sent) - RecentWindow + 1, Len(sent))

\* C4 witness: twelve events broadcast, the read differs from the first ten.
C4_Witness ==
  /\ Len(Decoded(1, "emergency-broadcast", "")) = RecentWindow + 2
  /\ Len(get_emergencies) = RecentWindow
  /\ get_emergencies # SubSeq(emergencies, 1, RecentWindow)

\* The four stores are left as they were by a step.
StoresUnchanged ==
  /\ vehicles' = vehicles
  /\ infrastructure' = infrastructure
  /\ emergencies' = emergencies
  /\ jobs' = jobs

\* The step is a call of on_mqtt_message.
HandlesMessage == trace' # trace /\ IsHandled(Last(trace'))

\* C6: formatting the topic of (kind, id) and parsing it recovers the kind
\* and the id, for every kind and id (the broadcast topic carries no id).
C6_RoundTrip ==
  codec.pc = "parsed" =>
    /\ codec.parsed.kind = codec.kind
    /\ codec.kind # "emergency-broadcast" => Str(codec.parsed.id) = codec.id

\* C7: a message whose topic is a well-formed topic with one level missing
\* is dropped: the four stores are unchanged and no exception gets out.
C7_MissingSegmentDropped ==
  [][(/\ HandlesMessage
      /\ Last(trace').topic \in MissingSegmentTopics
      /\ Address(Last(trace').topic) = NoAddress)
     => (StoresUnchanged /\ ~escaped')]_vars

\* C8: a message whose topic matches none of the subscribed patterns
\* changes no store and emits no notification.
C8_FailsClosed ==
  [][(HandlesMessage /\ Address(Last(trace').topic) = NoAddress)
     => (StoresUnchanged /\ emitted' = << >>)]_vars

\* The payload schemas of the topic table: the shape each kind expects (a
\* vehicle emergency is free-form: any JSON value).
SchemaOf(kind) ==
  CASE kind = "vehicle-status" -> "CAM"
    [] kind = "infrastructure-update" -> "V2I"
    [] kind = "emergency-broadcast" -> "DENM"
    [] kind = "job-assignment" -> "job"
    [] kind = "job-response" -> "response"
    [] OTHER -> "any"
Conforms(kind, payload) ==
  payload.json /\ SchemaOf(kind) \in {"any", payload.value.shape}

C10_OneRecordPerCreate ==
  Cardinality(DOMAIN jobs) =
    Cardinality({i \in 1..Len(trace) : IsCreated(trace[i])})

\* The assignment messages the last create_job call published for job id.
AssignmentsFor(id) ==
  SelectSeq(published, LAMBDA p : p.topic = AssignTopic(<<id>>))

\* C11: a create_job call with target list T publishes one assignment
\* message per target: as many assignment messages for the job as T has
\* entries.
C11_AssignmentPerTarget ==
  (trace # << >> /\ IsCreated(Last(trace))) =>
    Len(AssignmentsFor(Last(trace).job_id)) = Len(Last(trace).target_vehicles)

IsPrefix(a, b) == Len(a) <= Len(b) /\ SubSeq(b, 1, Len(a)) = a

\* C12: in every step, every job of the registry keeps the target list it
\* was created with, and its response list only grows at its end: the list
\* before the step is a prefix of the list after it.
C12_TargetsFixedResponsesAppend ==
  [][\A id \in DOMAIN jobs :
       /\ id \in DOMAIN jobs'
       /\ jobs'[id].target_vehicles = jobs[id].target_vehicles
       /\ IsPrefix(jobs[id].responses, jobs'[id].responses)]_vars

\* The step is a call of create_job.
CreatesJob == trace' # trace /\ IsCreated(Last(trace'))

\* C13: a create_job call with an empty target list fails: it returns no
\* job id, stores no job record and publishes no assignment message.
C13_EmptyTargetsRejected ==
  [][(CreatesJob /\ Last(trace').target_vehicles = << >>)
     => (returned' = "" /\ jobs' = jobs /\ published' = << >>)]_vars

\* C14: the emergency history never retains more events than its
\* capacity.  The code configures no capacity; the only one it names is the
\* window of the read, RecentWindow, and the property fails in the same way
\* for any other: the list is never shortened.
C14_HistoryBounded == Len(emergencies) <= RecentWindow

\* C15: the mapping a consumer got from the read API is a point-in-time
\* copy: what the consumer finds in it is the store as it was when the read
\* began, whatever the MQTT thread has applied since.
C15_PointInTimeCopy == reader.pc = "done" => reader.result = reader.began

\* C16: losing the connection and getting it back leave the vehicle store,
\* the infrastructure store, the emergency history and the job registry as
\* they were: neither step changes any of them.
C16_ReconnectKeepsStores ==
  [][(link'.up # link.up) => StoresUnchanged]_vars

\* C16 witness: the connection was lost and is back, with a vehicle, an
\* emergency and a job in the stores, which are as they were at the loss.
C16_Witness ==
  /\ link.up
  /\ link.drops > 0
  /\ vehicles # EmptyMap /\ emergencies # << >> /\ jobs # EmptyMap
  /\ link.held = <<vehicles, infrastructure, emergencies, jobs>>

\* C20: no step removes an entity: an id present in the vehicle store or in
\* the infrastructure store before a step is present after it, whether the
\* step handles a message, creates a job, or loses or re-establishes the
\* connection.
C20_EntitiesNeverRemoved ==
  [][/\ DOMAIN vehicles \subseteq DOMAIN vehicles'
     /\ DOMAIN infrastructure \subseteq DOMAIN infrastructure']_vars

\* C20 witness: V001 was stored first; a status of V002, a job creation and
\* a reconnect later it is still there.
C20_Witness ==
  /\ Len(trace) = 3
  /\ Carries(trace[1], "vehicle-status", "V001")
  /\ \E i \in 2..3 : Carries(trace[i], "vehicle-status", "V002")
  /\ \E i \in 2..3 : IsCreated(trace[i])
  /\ link.up /\ link.drops > 0
  /\ link.held[1] # EmptyMap
  /\ DOMAIN vehicles = {"V001", "V002"}

Producers ==
  {"simulate_vehicles", "simulate_infrastructure", "simulate_emergency_events"}

\* C18: no producer loop calls publish once stop() has stopped and
\* disconnected the client: every publish of a producer thread was made
\* before.
C18_NoProducerPublishAfterStop ==
  \A i \in 1..Len(sim_published) :
    sim_published[i].by \in Producers =>
      sim_published[i].client # "disconnected"

\* C19: no send_responses thread publishes a job response once stop() has
\* been called.
C19_NoResponseAfterStop ==
  \A i \in 1..Len(sim_published) :
    sim_published[i].by = "send_responses" =>
      sim_published[i].client # "disconnected"

\* C17: no exception gets out of a message handler, the dashboard's or the
\* simulator's, whatever the topic and the payload of the message; the
\* messages that follow are handled.
C17_HandlerReturns == ~escaped

\* C17 witness: the dashboard's handler was called with a topic too short
\* to index and then with undecodable bytes, or the other way round, and
\* returned both times.
C17_Witness ==
  /\ Len(trace) = 2
  /\ IsHandled(trace[1]) /\ IsHandled(trace[2])
  /\ \E i \in 1..2 : ~trace[i].payload.json
  /\ \E i \in 1..2 : trace[i].payload.json /\ Len(Split(trace[i].topic)) < 2
  /\ outcome.exc # "none"
  /\ ~escaped

\* The step is a call of the simulator's on_message / create_job.
IsSimHandled(e) == e.op = "on_message"
IsSimCreated(e) == e.op = "sim_create_job"
SimHandlesMessage == trace' # trace /\ IsSimHandled(Last(trace'))

\* The kind of the message the step handles.
KindHandled == Address(Last(trace').topic).kind

\* C21: a message changes at most the store of its kind.  Handling a
\* message of a kind other than vehicle-status leaves the vehicle store as
\* it was, and so on for the infrastructure store, the emergency history
\* and the job registry, in the dashboard and in the simulator; and a job
\* registry changes only in a create_job call or when a job response is
\* handled.
C21_OneStorePerKind ==
  [][/\ HandlesMessage =>
          /\ KindHandled # "vehicle-status" => vehicles' = vehicles
          /\ KindHandled # "infrastructure-update" =>
               infrastructure' = infrastructure
          /\ KindHandled # "emergency-broadcast" => emergencies' = emergencies
          /\ KindHandled # "job-response" => jobs' = jobs
     /\ SimHandlesMessage =>
          /\ KindHandled # "vehicle-status" => sim_vehicles' = sim_vehicles
          /\ KindHandled # "job-response" => sim_jobs' = sim_jobs
     /\ jobs' # jobs =>
          \/ CreatesJob
          \/ HandlesMessage /\ KindHandled = "job-response"
     /\ sim_jobs' # sim_jobs =>
          /\ trace' # trace
          /\ \/ IsSimCreated(Last(trace'))
             \/ IsSimHandled(Last(trace')) /\ KindHandled = "job-response"
    ]_vars

\* C21 witness: with a job in the registry and a snapshot of V001 stored,
\* the dashboard has handled a vehicle emergency of V001; the snapshot is
\* still the status handled before.
C21_Witness ==
  /\ Len(trace) = 3
  /\ IsCreated(trace[1])
  /\ Carries(trace[2], "vehicle-status", "V001")
  /\ Carries(trace[3], "vehicle-emergency", "V001")
  /\ jobs # EmptyMap
  /\ vehicles["V001"] = trace[2].payload.value

\* The notification of each kind the dashboard is subscribed to.
EventOf(kind) ==
  CASE kind = "vehicle-status" -> "vehicle_update"
    [] kind = "vehicle-emergency" -> "vehicle_emergency"
    [] kind = "infrastructure-update" -> "infrastructure_update"
    [] kind = "emergency-broadcast" -> "emergency_alert"
    [] kind = "job-response" -> "job_response"
    [] OTHER -> "none"

\* The message of the step is applied: its topic matches a pattern of the
\* dashboard, its payload decodes, and a response names a job the registry
\* holds.  It is dropped: the topic matches no pattern, or the payload does
\* not decode, or it is a response to a job the registry does not hold.
AppliedBy(e, registry) ==
  /\ EventOf(Address(e.topic).kind) # "none"
  /\ e.payload.json
  /\ Address(e.topic).kind = "job-response" =>
       Address(e.topic).id \in DOMAIN registry
DroppedBy(e, registry) ==
  \/ Address(e.topic) = NoAddress
  \/ ~e.payload.json
  \/ /\ Address(e.topic).kind = "job-response"
     /\ Address(e.topic).id \notin DOMAIN registry

\* C22: handling an applied message emits exactly one notification, of the
\* kind of the message, and handling a dropped message emits none.
C22_OneNotificationPerApplied ==
  [][HandlesMessage =>
       /\ AppliedBy(Last(trace'), jobs) =>
            /\ Len(emitted') = 1
            /\ emitted'[1].event = EventOf(Address(Last(trace').topic).kind)
       /\ DroppedBy(Last(trace'), jobs) => emitted' = << >>
    ]_vars

\* A thread whose function has returned or ended in an exception.
Terminated(t) == threads[t].pc \in {"done", "raised"}
ProducerThreads == {t \in DOMAIN threads : threads[t].kind \in Producers}

\* C23: once stop() has been called, every producer loop terminates: the
\* threads of simulate_vehicles, simulate_infrastructure and
\* simulate_emergency_events all end.
C23_ProducersTerminate ==
  (client = "disconnected") ~> (\A t \in ProducerThreads : Terminated(t))

\* C23 witness: stop() was called while the vehicle loop was inside a cycle
\* (it has published since), and the three producer threads have ended,
\* each by its loop test.
C23_Witness ==
  /\ client = "disconnected"
  /\ ProducerThreads # {}
  /\ \A t \in ProducerThreads : threads[t].pc = "done"
  /\ \E i \in 1..Len(sim_published) :
       /\ sim_published[i].by = "simulate_vehicles"
       /\ sim_published[i].client = "disconnected"

\* C24: a response to a job whose assignment create_job has published is
\* handled with the job in the registry of that program, whatever the
\* interleaving of the two threads: it is appended to the job's response
\* list and never dropped as a response to an unknown job.
C24_ResponseFindsJob ==
  [][/\ (HandlesMessage /\ KindHandled = "job-response"
          /\ Assigned("dashboard", Address(Last(trace').topic).id)) =>
          LET id == Address(Last(trace').topic).id
          IN /\ id \in DOMAIN jobs
             /\ jobs'[id].responses =
                  Append(jobs[id].responses, Last(trace').payload.value)
     /\ (SimHandlesMessage /\ KindHandled = "job-response"
          /\ Assigned("simulator", Address(Last(trace').topic).id)) =>
          LET id == Address(Last(trace').topic).id
          IN /\ id \in DOMAIN sim_jobs
             /\ sim_jobs'[id].responses =
                  Append(sim_jobs[id].responses, Last(trace').payload.value)
    ]_vars

\* C24 witness: the dashboard's create_job has published the assignment
\* of 1a2b3c4d and not yet returned, and the network thread has already
\* handled the response to it and stored it in the job.
C24_Witness ==
  /\ creating.pc = Len(CreateOrder) /\ creating.by = "dashboard"
  /\ Len(trace) = 1
  /\ Carries(trace[1], "job-response", "1a2b3c4d")
  /\ Assigned("dashboard", "1a2b3c4d")
  /\ jobs["1a2b3c4d"].responses = <<trace[1].payload.value>>

\* The responses the simulator has stored for the job it created.
CreatedJobs == {i \in 1..Len(trace) : IsSimCreated(trace[i])}

\* C25: a job the simulator created for n distinct vehicles never holds
\* more than n responses, and never two of the same vehicle.
C25_OneResponsePerTarget ==
  \A c \in CreatedJobs :
    LET id == trace[c].job_id
        rs == sim_jobs[id].responses
    IN /\ Len(rs) <= Len(trace[c].target_vehicles)
       /\ \A i, j \in 1..Len(rs) :
            rs[i].vehicle_id = rs[j].vehicle_id => i = j

\* Thread t, started for an assignment, has published a response of every
\* vehicle of the assignment's target list on the job's response topic.
Responded(t) ==
  \A i \in 1..Len(TargetsOf(threads[t].job_data)) :
    \E j \in 1..Len(sim_published) :
      /\ sim_published[j].thread = t
      /\ sim_published[j].topic =
           FormatTopic("job-response", Str(threads[t].job_id))
      /\ sim_published[j].payload =
           Response(threads[t].job_id,
                    TargetsOf(threads[t].job_data)[i], 1)
Pending(t) ==
  /\ t \in ThreadsOf("send_responses")
  /\ ~Responded(t)

\* C26: every assignment the simulator has received is eventually followed
\* by a response for every vehicle of its target list, unless the simulator
\* is stopped first.
C26_AssignmentAnswered ==
  \A t \in 1..(3 + MaxAssignments) :
    Pending(t) ~> (~Pending(t) \/ client # "connected")

\* C26 witness: the simulator, still running and connected, has answered an
\* assignment for V001 and V002 with a response of each, published while
\* connected.
C26_Witness ==
  /\ running /\ client = "connected"
  /\ \E t \in ThreadsOf("send_responses") :
       /\ TargetsOf(threads[t].job_data) = <<"V001", "V002">>
       /\ threads[t].pc = "done"
       /\ Responded(t)
       /\ \A j \in 1..Len(sim_published) :
            sim_published[j].client = "connected"

\* Every response in the lists of a registry names the job that holds it
\* and one of that job's target vehicles.
ResponsesMatch(registry) ==
  \A id \in DOMAIN registry :
    \A i \in 1..Len(registry[id].responses) :
      LET r == registry[id].responses[i]
      IN /\ r.shape = "response"
         /\ r.job_id = id
         /\ \E k \in 1..Len(registry[id].target_vehicles) :
              registry[id].target_vehicles[k] = r.vehicle_id

\* C27: in every reachable state every response stored in a job's response
\* list carries that job's id and the id of a vehicle among the job's
\* targets, in the dashboard's registry and in the simulator's.
C27_ResponsesBelongToJob == ResponsesMatch(jobs) /\ ResponsesMatch(sim_jobs)

\* C28: a producer loop of an earlier run never publishes alongside the
\* loop of a later run: once a thread of simulate_vehicles,
\* simulate_infrastructure or simulate_emergency_events has published, no
\* thread of the same function started by an earlier start() publishes.
C28_OneLoopPerProducer ==
  \A i, j \in 1..Len(sim_published) :
    (/\ i < j
     /\ sim_published[i].by \in Producers
     /\ sim_published[i].by = sim_published[j].by)
    => sim_published[i].thread <= sim_published[j].thread

\* C29: while running is true the vehicle loop goes on: no thread of
\* simulate_vehicles has ended, by an exception or otherwise, as long as
\* stop() has not been called.
C29_VehicleLoopSurvives ==
  running =>
    \A t \in ThreadsOf("simulate_vehicles") : ~Terminated(t)

\* C30: handling a status message never puts the simulation state of a
\* vehicle back: the state stored for the vehicle afterwards has seen at
\* least as many position updates of the loop as the state before.
C30_StatusNeverOlder ==
  [][(/\ SimHandlesMessage
      /\ KindHandled = "vehicle-status"
      /\ Address(Last(trace').topic).id \in DOMAIN sim_vehicles) =>
       LET id == Address(Last(trace').topic).id
       IN sim_vehicles'[id].n >= sim_vehicles[id].n
    ]_vars

====
